---- MODULE Spec2Model ----
(***************************************************************************)
(* Model of the device-control correlation service:                        *)
(*   - migratedControlService.js (src/unnamed/part_000): identity          *)
(*     resolution (getThingIdByDeviceId) and the three MongoDB polls;      *)
(*   - controlService.js: the handlers control, setting, slaveRequest,     *)
(*     isBaseResponded, isTankResponded.                                   *)
(* Time is in milliseconds.  Every await of the code is an action          *)
(* boundary; a store query and a publish complete in the instant they are  *)
(* issued, and a setTimeout fires exactly when it is due.                  *)
(***************************************************************************)
EXTENDS Integers, Sequences, FiniteSets, TLC

VARIABLES
    now,               \* Date.now(), in ms
    dbReady,           \* mongoose.connection.db is defined
    sensor_metadata,   \* collection "sensor_metadata": sequence of rows
    users,             \* collection "users": sequence of user documents
    device_responses,  \* collection "device_responses", in insertion order
    tank_readings,     \* collection "tank_readings", in insertion order
    calls,             \* the in-flight and finished handler invocations
    lookup,            \* direct call of a function of the service: its input
    answer             \* direct call of a function of the service: its result

vars == <<now, dbReady, sensor_metadata, users, device_responses,
          tank_readings, calls, lookup, answer>>

-----------------------------------------------------------------------------
(* JavaScript values.  Null stands for undefined / null / a missing field. *)

Null == "<null>"

\* JS truthiness of a string-or-missing value (!x is its negation).
Truthy(v) == v # Null /\ v # ""

\* JS a || b.
Or(a, b) == IF Truthy(a) THEN a ELSE b

-----------------------------------------------------------------------------
(* Identity resolution: getThingIdByDeviceId.                              *)

\* A device record of users.spaces[].devices[].
Device(id, type, parent, tn, a1, a2, a3) ==
    [device_id |-> id, device_type |-> type, parent_device_id |-> parent,
     thing_name |-> tn, thingid |-> a1, thingId |-> a2, thing_id |-> a3]

\* sensorColl.findOne({ deviceid }): the first row with that deviceid.
FindOneSensor(coll, deviceid) ==
    LET hits == {i \in 1..Len(coll) : coll[i].deviceid = deviceid}
    IN  IF hits = {} THEN [found |-> FALSE]
        ELSE [found |-> TRUE, row |-> coll[CHOOSE i \in hits : \A j \in hits : i <= j]]

\* row.thingid || row.thingId || row.thing_id
RowThing(row) == Or(row.thingid, Or(row.thingId, row.thing_id))

\* Mutant: the alias chain is read in the opposite order.
DeviceThingLegacyFirst(device) ==
    Or(device.thing_id, Or(device.thingId, Or(device.thingid, device.thing_name)))

\* device.thing_name || device.thingid || device.thingId || device.thing_id
DeviceThing(device) ==
    Or(device.thing_name, Or(device.thingid, Or(device.thingId, device.thing_id)))

\* usersColl.findOne({ "spaces.devices.device_id": deviceid }).
UserHas(userDoc, deviceid) ==
    \E s \in 1..Len(userDoc.spaces) :
        \E d \in 1..Len(userDoc.spaces[s].devices) :
            userDoc.spaces[s].devices[d].device_id = deviceid

FindOneUser(coll, deviceid) ==
    LET hits == {i \in 1..Len(coll) : UserHas(coll[i], deviceid)}
    IN  IF hits = {} THEN [found |-> FALSE]
        ELSE [found |-> TRUE, doc |-> coll[CHOOSE i \in hits : \A j \in hits : i <= j]]

\* space.devices.find(d => d.device_id === parentDeviceId && d.device_type === "base")
FindBase(devices, parentDeviceId) ==
    LET hits == {i \in 1..Len(devices) :
                    /\ devices[i].device_id = parentDeviceId
                    /\ devices[i].device_type = "base"}
    IN  IF hits = {} THEN [found |-> FALSE]
        ELSE [found |-> TRUE, dev |-> devices[CHOOSE i \in hits : \A j \in hits : i <= j]]

Return(v) == [ret |-> TRUE, val |-> v]
Continue  == [ret |-> FALSE, val |-> Null]

\* Mutant: a tank that carries an identity field of its own answers with it
\* before its parent is looked for.
VisitDeviceOwnFirst(devices, device, deviceid) ==
    IF device.device_id # deviceid THEN Continue
    ELSE IF Truthy(DeviceThing(device)) THEN Return(DeviceThing(device))
    ELSE IF device.device_type = "tank" /\ ~Truthy(device.parent_device_id)
         THEN Return(Null)
    ELSE IF /\ device.device_type = "tank"
            /\ FindBase(devices, device.parent_device_id).found
            /\ Truthy(DeviceThing(FindBase(devices, device.parent_device_id).dev))
         THEN Return(DeviceThing(FindBase(devices, device.parent_device_id).dev))
    ELSE Continue

\* The body of the inner loop for one device of a space: a return of the
\* function (Return) or the next iteration (Continue).
VisitDevice(devices, device, deviceid) ==
    IF device.device_id # deviceid THEN Continue
    ELSE IF device.device_type = "base" /\ Truthy(DeviceThing(device))
         THEN Return(DeviceThing(device))
    ELSE IF device.device_type = "tank" /\ ~Truthy(device.parent_device_id)
         THEN Return(Null)
    ELSE IF /\ device.device_type = "tank"
            /\ FindBase(devices, device.parent_device_id).found
            /\ Truthy(DeviceThing(FindBase(devices, device.parent_device_id).dev))
         THEN Return(DeviceThing(FindBase(devices, device.parent_device_id).dev))
    \* fallback for other device types, reached by base and tank records too
    ELSE IF Truthy(DeviceThing(device)) THEN Return(DeviceThing(device))
    ELSE Continue

\* for (const device of space.devices), from index i on.
RECURSIVE ScanDevices(_, _, _)
ScanDevices(devices, i, deviceid) ==
    IF i > Len(devices) THEN Continue
    ELSE LET r == VisitDevice(devices, devices[i], deviceid)
         IN  IF r.ret THEN r ELSE ScanDevices(devices, i + 1, deviceid)

\* for (const space of userDoc.spaces), from index s on.
RECURSIVE ScanSpaces(_, _, _)
ScanSpaces(spaces, s, deviceid) ==
    IF s > Len(spaces) THEN Continue
    ELSE LET r == ScanDevices(spaces[s].devices, 1, deviceid)
         IN  IF r.ret THEN r ELSE ScanSpaces(spaces, s + 1, deviceid)

\* Step 1 (try block over sensor_metadata).  threw: the query (or, without a
\* database handle, database.collection) threw and the catch logged it.
SensorStep(deviceid, coll, threw) ==
    IF threw THEN Continue
    ELSE LET r == FindOneSensor(coll, deviceid)
         IN  IF r.found /\ Truthy(RowThing(r.row)) THEN Return(RowThing(r.row))
             ELSE Continue

\* Step 2 (try block over users).
UsersStep(deviceid, coll, threw) ==
    IF threw THEN Continue
    ELSE LET r == FindOneUser(coll, deviceid)
         IN  IF r.found THEN ScanSpaces(r.doc.spaces, 1, deviceid) ELSE Continue

\* Mutant: the two queries are not guarded, so that the error of either
\* rejects the call (Rejected stands for the rejection).
Rejected == "<rejected>"

getThingIdByDeviceIdUnguarded(deviceid, sensorColl, usersColl, sensorThrew, usersThrew) ==
    IF ~Truthy(deviceid) THEN Null
    ELSE IF sensorThrew THEN Rejected
    ELSE LET s1 == SensorStep(deviceid, sensorColl, FALSE)
         IN  IF s1.ret THEN s1.val
             ELSE IF usersThrew THEN Rejected
             ELSE LET s2 == UsersStep(deviceid, usersColl, FALSE)
                  IN  IF s2.ret THEN s2.val ELSE Null

\* getThingIdByDeviceId(deviceid) over the two collections; sensorThrew and
\* usersThrew say which of the two try blocks threw.
getThingIdByDeviceId(deviceid, sensorColl, usersColl, sensorThrew, usersThrew) ==
    IF ~Truthy(deviceid) THEN Null
    ELSE LET s1 == SensorStep(deviceid, sensorColl, sensorThrew)
         IN  IF s1.ret THEN s1.val
             ELSE LET s2 == UsersStep(deviceid, usersColl, usersThrew)
                  IN  IF s2.ret THEN s2.val ELSE Null

-----------------------------------------------------------------------------
(* Bounds of the model.                                                    *)

\* The callers whose requests may be in flight at the same time, and the one
\* caller of the specifications that follow a single request at a time.
Callers == {"c1", "c2"}
Solo    == {"c1"}

\* Documents the external producers insert in one behaviour.
MaxDocs == 1

\* Documents the device's replies add to device_responses in one behaviour
\* of SpecNewest.
MaxReplies == 2

\* The latest time (ms) at which a request is accepted.
StartBy == 250

\* The time (ms) at which the clock of the model stops.
MaxTime == 11000

-----------------------------------------------------------------------------
(* Constants of the program.                                               *)

interval      == 500     \* waitForSlaveResponseFromMongoDB: poll cadence
slaveWindow   == 15000   \* ... recency window of its query
slaveTimeout  == 10000   \* slaveRequest: budget it passes to the poll
basePollInterval == 1000 \* checkBaseRespondedInMongo: poll cadence
baseWindow    == 10000   \* ... recency window of its query
baseTimeout   == 5000    \* isBaseResponded: budget it passes
tankPollInterval == 1000 \* checkTankRespondedInMongo: poll cadence
tankWindow    == 10000   \* ... recency window of its query
tankTimeout   == 10000   \* isTankResponded: budget it passes

-----------------------------------------------------------------------------
(* The polls of migratedControlService.js.                                 *)

\* Mutant: the loop gives up at half the budget.
LoopCondHalf(t, start, timeoutMs) == 2 * (t - start) < timeoutMs

\* while (Date.now() - start < timeoutMs)
LoopCond(t, start, timeoutMs) == t - start < timeoutMs

\* Mutant: the wait between two polls is twice the interval.
SleepTwice(t, ms) == t + 2 * ms

\* Mutant: the wait between two polls is half the interval.
SleepHalf(t, ms) == t + ms \div 2

\* setTimeout(resolve, ms): the time at which the loop condition is next read.
SleepUntil(t, ms) == t + ms

\* The filter of the slave-response query: { thingid, inserted_at: { $gte:
\* since }, response_type: 'slave_response' }.
SlaveFilter(doc, thingid, since) ==
    /\ doc.thingid = thingid
    /\ doc.inserted_at >= since
    /\ doc.response_type = "slave_response"

\* Mutant: the sort is ascending, so that the oldest match is returned.
SlaveFindOldest(coll, thingid, since) ==
    LET hits == {i \in 1..Len(coll) : SlaveFilter(coll[i], thingid, since)}
    IN  {i \in hits : \A j \in hits : coll[j].inserted_at >= coll[i].inserted_at}

\* findOne(filter, { sort: { inserted_at: -1 } }): the documents the query
\* may return, i.e. the matching ones with the greatest inserted_at (any of
\* them on a tie); empty when nothing matches.
SlaveFindOne(coll, thingid, since) ==
    LET hits == {i \in 1..Len(coll) : SlaveFilter(coll[i], thingid, since)}
    IN  {i \in hits : \A j \in hits : coll[j].inserted_at <= coll[i].inserted_at}

\* { deviceid, message_type: "alive_reply", timestamp: { $gte: since } }
BaseFilter(doc, deviceid, since) ==
    /\ doc.deviceid = deviceid
    /\ doc.message_type = "alive_reply"
    /\ doc.timestamp >= since

BaseFindOne(coll, deviceid, since) ==
    LET hits == {i \in 1..Len(coll) : BaseFilter(coll[i], deviceid, since)}
    IN  {i \in hits : \A j \in hits : coll[j].timestamp <= coll[i].timestamp}

\* { deviceid, sensor_no: sensorNo, message_type: "update", timestamp: { $gte: since } }
TankFilter(doc, deviceid, sensorNo, since) ==
    /\ doc.deviceid = deviceid
    /\ doc.sensor_no = sensorNo
    /\ doc.message_type = "update"
    /\ doc.timestamp >= since

TankFindOne(coll, deviceid, sensorNo, since) ==
    LET hits == {i \in 1..Len(coll) : TankFilter(coll[i], deviceid, sensorNo, since)}
    IN  {i \in hits : \A j \in hits : coll[j].timestamp <= coll[i].timestamp}

-----------------------------------------------------------------------------
(* Handler invocations.                                                    *)

\* The directory the handlers resolve against: base B0 carries the target
\* identity T0, tank K1 hangs below B0, and K1 has a sensor_metadata row
\* without any identity field.  DX is in neither collection.
DirSensors ==
    << [deviceid |-> "K1", thingid |-> Null, thingId |-> Null, thing_id |-> Null] >>

DirUsers ==
    << [spaces |-> <<
          [devices |-> << Device("B0", "base", Null, "T0", Null, Null, Null),
                          Device("K1", "tank", "B0", Null, Null, Null, Null) >>] >>] >>

DeviceIds == {Null, "B0", "K1", "DX"}
SensorNos == {Null, "1"}

\* getTopic(kind, thingid, purpose) of awsIotConfig.js: an external naming
\* scheme; only its arguments matter here.
getTopic(kind, thingid, purpose) == <<kind, thingid, purpose>>

NoCall ==
    [op |-> "none", pc |-> "idle", deviceid |-> Null, sensor_no |-> Null,
     thingid |-> Null, topic |-> <<>>,
     budget |-> 0, start |-> 0, wakeAt |-> 0,
     status |-> 0, success |-> FALSE, data |-> "none", reply |-> 0,
     error |-> <<>>, thrown |-> FALSE,
     \* History of the invocation, read by the properties only: the calls of
     \* getThingIdByDeviceId and publishToIoT made, whether, when and at which
     \* size of device_responses the publish resolved, the queries issued,
     \* the size of the polled collection at the last query and at the
     \* latest query that threw (-1: none threw), the time of the last query,
     \* entry and exit times.
     lookups |-> 0, pubs |-> 0, pubOk |-> FALSE, pubAt |-> 0, pubSeq |-> 0,
     queries |-> 0, askedSeq |-> 0, failSeq |-> -1, askedAt |-> 0,
     began |-> 0, doneAt |-> 0]

Idle(c) == calls[c].pc = "idle"

\* A request is accepted while the clock has not passed StartBy.
Accepting(c) == Idle(c) /\ now <= StartBy

\* res.status(code).json({ success, ... }): the handler's response.
Respond(call, code, ok, err) ==
    [call EXCEPT !.pc = "done", !.status = code, !.success = ok,
                 !.error = err, !.doneAt = now]

\* The two try blocks of getThingIdByDeviceId throw when there is no database
\* handle (database.collection on undefined), and each may throw on its own
\* when its query fails.
Resolutions(deviceid) ==
    {getThingIdByDeviceId(deviceid, sensor_metadata, users, e1, e2) :
        e1 \in (IF dbReady THEN BOOLEAN ELSE {TRUE}),
        e2 \in (IF dbReady THEN BOOLEAN ELSE {TRUE})}

----
(* control(req, res)                                                       *)

\* From the entry of the handler to its await of publishToIoT.
controlStart(c, deviceid) ==
    /\ Accepting(c)
    /\ LET call == [NoCall EXCEPT !.op = "control", !.deviceid = deviceid,
                                  !.began = now]
       IN  IF ~Truthy(deviceid)
           THEN calls' = [calls EXCEPT ![c] =
                    Respond(call, 400, FALSE, <<"Missing deviceid in request">>)]
           ELSE \E thingid \in Resolutions(deviceid) :
                  LET looked == [call EXCEPT !.lookups = 1, !.thingid = thingid]
                  IN  IF ~Truthy(thingid)
                      THEN calls' = [calls EXCEPT ![c] =
                               Respond(looked, 404, FALSE,
                                       <<"DeviceId not found or no associated thing ID">>)]
                      ELSE calls' = [calls EXCEPT ![c] =
                               [looked EXCEPT !.pc = "publishing", !.pubs = 1,
                                    !.topic = getTopic("control", thingid, "control")]]
    /\ UNCHANGED <<now, dbReady, sensor_metadata, users, device_responses,
                   tank_readings, lookup, answer>>

\* Mutant: a rejected publish is tried once more before the call gives up.
controlPublishedRetry(c, ok) ==
    /\ calls[c].op = "control" /\ calls[c].pc = "publishing"
    /\ calls' = [calls EXCEPT ![c] =
          IF ok THEN Respond([@ EXCEPT !.pubOk = TRUE, !.pubAt = now],
                             200, TRUE, <<>>)
          ELSE IF @.pubs < 2 THEN [@ EXCEPT !.pubs = @ + 1]
          ELSE Respond(@, 500, FALSE, <<"transport error">>)]
    /\ UNCHANGED <<now, dbReady, sensor_metadata, users, device_responses,
                   tank_readings, lookup, answer>>

\* publishToIoT settles: resolved (ok) or rejected.
controlPublished(c, ok) ==
    /\ calls[c].op = "control" /\ calls[c].pc = "publishing"
    /\ calls' = [calls EXCEPT ![c] =
          IF ok THEN Respond([@ EXCEPT !.pubOk = TRUE, !.pubAt = now],
                             200, TRUE, <<>>)
                ELSE Respond(@, 500, FALSE, <<"transport error">>)]
    /\ UNCHANGED <<now, dbReady, sensor_metadata, users, device_responses,
                   tank_readings, lookup, answer>>

----
(* setting(deviceid, payload)                                              *)

\* throw new Error(`MQTT Publish Failed: ${error.message}`) of the catch: the
\* message is the fixed prefix followed by the message of the caught error.
Rethrow(call, message) ==
    [call EXCEPT !.pc = "done", !.thrown = TRUE, !.doneAt = now,
                 !.error = <<"MQTT Publish Failed">> \o message]

settingStart(c, deviceid) ==
    /\ Accepting(c)
    /\ LET call == [NoCall EXCEPT !.op = "setting", !.deviceid = deviceid,
                                  !.began = now, !.lookups = 1]
       IN  \E thingid \in Resolutions(deviceid) :
              IF ~Truthy(thingid)
              THEN calls' = [calls EXCEPT ![c] =
                       Rethrow(call, <<"No thingid found for deviceid">>)]
              ELSE calls' = [calls EXCEPT ![c] =
                       [call EXCEPT !.pc = "publishing", !.pubs = 1,
                            !.thingid = thingid,
                            !.topic = getTopic("setting", thingid, "setting")]]
    /\ UNCHANGED <<now, dbReady, sensor_metadata, users, device_responses,
                   tank_readings, lookup, answer>>

settingPublished(c, ok) ==
    /\ calls[c].op = "setting" /\ calls[c].pc = "publishing"
    /\ calls' = [calls EXCEPT ![c] =
          IF ok THEN [@ EXCEPT !.pc = "done", !.success = TRUE, !.pubOk = TRUE,
                               !.pubAt = now, !.doneAt = now]
                ELSE Rethrow(@, <<"transport error">>)]
    /\ UNCHANGED <<now, dbReady, sensor_metadata, users, device_responses,
                   tank_readings, lookup, answer>>

----
(* slaveRequest(req, res) and waitForSlaveResponseFromMongoDB              *)

\* Mutant: the validation forgets the sensor index.
slaveRequestStartUnchecked(c, deviceid, sensor_no) ==
    /\ Accepting(c)
    /\ LET call == [NoCall EXCEPT !.op = "slaveRequest", !.deviceid = deviceid,
                                  !.sensor_no = sensor_no, !.began = now]
       IN  IF ~Truthy(deviceid)
           THEN calls' = [calls EXCEPT ![c] =
                    Respond(call, 400, FALSE, <<"Missing deviceid or sensor_no">>)]
           ELSE \E thingid \in Resolutions(deviceid) :
                  LET looked == [call EXCEPT !.lookups = 1, !.thingid = thingid]
                  IN  IF ~Truthy(thingid)
                      THEN calls' = [calls EXCEPT ![c] =
                               Respond(looked, 404, FALSE,
                                       <<"DeviceId not found or no associated thing ID">>)]
                      ELSE calls' = [calls EXCEPT ![c] =
                               [looked EXCEPT !.pc = "publishing", !.pubs = 1,
                                    !.topic = getTopic("slaveRequest", thingid,
                                                       "slaveRequest")]]
    /\ UNCHANGED <<now, dbReady, sensor_metadata, users, device_responses,
                   tank_readings, lookup, answer>>

\* From the entry of the handler to its await of publishToIoT.
slaveRequestStart(c, deviceid, sensor_no) ==
    /\ Accepting(c)
    /\ LET call == [NoCall EXCEPT !.op = "slaveRequest", !.deviceid = deviceid,
                                  !.sensor_no = sensor_no, !.began = now]
       IN  IF ~Truthy(deviceid) \/ ~Truthy(sensor_no)
           THEN calls' = [calls EXCEPT ![c] =
                    Respond(call, 400, FALSE, <<"Missing deviceid or sensor_no">>)]
           ELSE \E thingid \in Resolutions(deviceid) :
                  LET looked == [call EXCEPT !.lookups = 1, !.thingid = thingid]
                  IN  IF ~Truthy(thingid)
                      THEN calls' = [calls EXCEPT ![c] =
                               Respond(looked, 404, FALSE,
                                       <<"DeviceId not found or no associated thing ID">>)]
                      ELSE calls' = [calls EXCEPT ![c] =
                               [looked EXCEPT !.pc = "publishing", !.pubs = 1,
                                    !.topic = getTopic("slaveRequest", thingid,
                                                       "slaveRequest")]]
    /\ UNCHANGED <<now, dbReady, sensor_metadata, users, device_responses,
                   tank_readings, lookup, answer>>

\* if (response) { 200, data: {...} } else { 200, data: null }
SlaveResult(call, found) ==
    [Respond(call, 200, TRUE, <<>>) EXCEPT
        !.data = IF found # 0 THEN "reply" ELSE "null", !.reply = found]

\* Mutant: the rejection of the publish is swallowed and the poll starts.
slaveRequestPublishedAnyway(c, ok) ==
    /\ calls[c].op = "slaveRequest" /\ calls[c].pc = "publishing"
    /\ calls' = [calls EXCEPT ![c] =
          [@ EXCEPT !.pc = "polling", !.pubOk = ok, !.pubAt = now,
                    !.pubSeq = Len(device_responses),
                    !.budget = slaveTimeout, !.start = now, !.wakeAt = now]]
    /\ UNCHANGED <<now, dbReady, sensor_metadata, users, device_responses,
                   tank_readings, lookup, answer>>

\* publishToIoT settles.  Rejected: the catch answers 500.  Resolved: the
\* handler enters waitForSlaveResponseFromMongoDB(thingid, 10000), which
\* takes the database handle and the start time; its loop is the next action.
slaveRequestPublished(c, ok) ==
    /\ calls[c].op = "slaveRequest" /\ calls[c].pc = "publishing"
    /\ calls' = [calls EXCEPT ![c] =
          IF ~ok THEN Respond(@, 500, FALSE, <<"transport error">>)
          ELSE IF ~dbReady
               THEN Respond([@ EXCEPT !.pubOk = TRUE, !.pubAt = now,
                                      !.pubSeq = Len(device_responses)],
                            500, FALSE, <<"TypeError">>)
          ELSE [@ EXCEPT !.pc = "polling", !.pubOk = TRUE, !.pubAt = now,
                         !.pubSeq = Len(device_responses),
                         !.budget = slaveTimeout, !.start = now, !.wakeAt = now]]
    /\ UNCHANGED <<now, dbReady, sensor_metadata, users, device_responses,
                   tank_readings, lookup, answer>>

\* Mutant: the error of a query leaves the loop and reaches the handler's
\* catch, which answers 500.
Uncaught(call, seq) ==
    Respond([call EXCEPT !.failSeq = seq], 500, FALSE, <<"query error">>)

\* catch (err) { logger.error(...) } inside the loop of a poll: the error of
\* the query is logged and the turn goes on to its setTimeout.  seq, the
\* size of the polled collection at the query, is kept for the properties.
Caught(call, seq) == [call EXCEPT !.failSeq = seq]

\* Mutant: the query also asks for the caller's own request, as a
\* correlation id echoed by the device would allow.
OwnSlaveQuery(c, since) ==
    {i \in SlaveFindOne(device_responses, calls[c].thingid, since) :
        device_responses[i].cause = c}

\* The query of one turn of the loop: collection.findOne on the thing id
\* the call resolved, over the documents of the last 15 seconds.
SlaveQuery(c, since) ==
    SlaveFindOne(device_responses, calls[c].thingid, since)

\* One turn of the loop of waitForSlaveResponseFromMongoDB, run when the
\* timer of the previous turn fires: the loop condition, the query, and
\* either the return of the document (and the handler's response), or the
\* next setTimeout; with the condition false, the return of null.
waitForSlaveResponseFromMongoDB(c) ==
    /\ calls[c].op = "slaveRequest" /\ calls[c].pc = "polling"
    /\ calls[c].wakeAt = now
    /\ IF LoopCond(now, calls[c].start, calls[c].budget)
       THEN LET since == now - slaveWindow
                asked == [calls[c] EXCEPT !.queries = @ + 1, !.askedAt = now,
                                          !.askedSeq = Len(device_responses),
                                          !.wakeAt = SleepUntil(now, interval)]
            IN  \/ \* the query throws; the catch logs it
                   calls' = [calls EXCEPT ![c] =
                       Caught(asked, Len(device_responses))]
                \/ /\ SlaveQuery(c, since) = {}
                   /\ calls' = [calls EXCEPT ![c] = asked]
                \/ \E i \in SlaveQuery(c, since) :
                       calls' = [calls EXCEPT ![c] = SlaveResult(asked, i)]
       ELSE calls' = [calls EXCEPT ![c] = SlaveResult(@, 0)]
    /\ UNCHANGED <<now, dbReady, sensor_metadata, users, device_responses,
                   tank_readings, lookup, answer>>

----
(* isBaseResponded(req, res) and checkBaseRespondedInMongo                 *)

\* Mutant: a device that did not respond is reported as an internal error.
RespondedAsError(call, responded) ==
    Respond(call, IF responded THEN 200 ELSE 500, responded, <<>>)

\* res.status(responded ? 200 : 404).json({ success: responded, ... })
Responded(call, responded) ==
    Respond(call, IF responded THEN 200 ELSE 404, responded, <<>>)

\* From the entry of the handler into checkBaseRespondedInMongo(deviceid,
\* 5000), which takes the database handle, the collection and the start time.
isBaseRespondedStart(c, deviceid) ==
    /\ Accepting(c)
    /\ LET call == [NoCall EXCEPT !.op = "isBaseResponded",
                                  !.deviceid = deviceid, !.began = now]
       IN  calls' = [calls EXCEPT ![c] =
              IF ~Truthy(deviceid)
              THEN Respond(call, 400, FALSE, <<"Device ID is required.">>)
              ELSE IF ~dbReady
                   THEN Respond(call, 500, FALSE, <<"Internal server error.">>)
              ELSE [call EXCEPT !.pc = "polling", !.budget = baseTimeout,
                                !.start = now, !.wakeAt = now]]
    /\ UNCHANGED <<now, dbReady, sensor_metadata, users, device_responses,
                   tank_readings, lookup, answer>>

\* One turn of the loop of checkBaseRespondedInMongo.
checkBaseRespondedInMongo(c) ==
    /\ calls[c].op = "isBaseResponded" /\ calls[c].pc = "polling"
    /\ calls[c].wakeAt = now
    /\ IF LoopCond(now, calls[c].start, calls[c].budget)
       THEN LET since == now - baseWindow
                asked == [calls[c] EXCEPT !.queries = @ + 1, !.askedAt = now,
                                          !.askedSeq = Len(tank_readings),
                                          !.wakeAt = SleepUntil(now, basePollInterval)]
            IN  \/ calls' = [calls EXCEPT ![c] =
                       Caught(asked, Len(tank_readings))]
                \/ /\ BaseFindOne(tank_readings, calls[c].deviceid, since) = {}
                   /\ calls' = [calls EXCEPT ![c] = asked]
                \/ \E i \in BaseFindOne(tank_readings, calls[c].deviceid, since) :
                       calls' = [calls EXCEPT ![c] =
                           Responded([asked EXCEPT !.reply = i], TRUE)]
       ELSE calls' = [calls EXCEPT ![c] = Responded(@, FALSE)]
    /\ UNCHANGED <<now, dbReady, sensor_metadata, users, device_responses,
                   tank_readings, lookup, answer>>

----
(* isTankResponded(req, res) and checkTankRespondedInMongo                 *)

isTankRespondedStart(c, deviceid, sensorNumber) ==
    /\ Accepting(c)
    /\ LET call == [NoCall EXCEPT !.op = "isTankResponded",
                                  !.deviceid = deviceid,
                                  !.sensor_no = sensorNumber, !.began = now]
       IN  calls' = [calls EXCEPT ![c] =
              IF ~Truthy(deviceid) \/ ~Truthy(sensorNumber)
              THEN Respond(call, 400, FALSE,
                           <<"Device ID and Sensor Number are required.">>)
              ELSE IF ~dbReady
                   THEN Respond(call, 500, FALSE, <<"Internal server error.">>)
              ELSE [call EXCEPT !.pc = "polling", !.budget = tankTimeout,
                                !.start = now, !.wakeAt = now]]
    /\ UNCHANGED <<now, dbReady, sensor_metadata, users, device_responses,
                   tank_readings, lookup, answer>>

\* One turn of the loop of checkTankRespondedInMongo.
checkTankRespondedInMongo(c) ==
    /\ calls[c].op = "isTankResponded" /\ calls[c].pc = "polling"
    /\ calls[c].wakeAt = now
    /\ IF LoopCond(now, calls[c].start, calls[c].budget)
       THEN LET since == now - tankWindow
                asked == [calls[c] EXCEPT !.queries = @ + 1, !.askedAt = now,
                                          !.askedSeq = Len(tank_readings),
                                          !.wakeAt = SleepUntil(now, tankPollInterval)]
            IN  \/ calls' = [calls EXCEPT ![c] =
                       Caught(asked, Len(tank_readings))]
                \/ /\ TankFindOne(tank_readings, calls[c].deviceid,
                                  calls[c].sensor_no, since) = {}
                   /\ calls' = [calls EXCEPT ![c] = asked]
                \/ \E i \in TankFindOne(tank_readings, calls[c].deviceid,
                                        calls[c].sensor_no, since) :
                       calls' = [calls EXCEPT ![c] =
                           Responded([asked EXCEPT !.reply = i], TRUE)]
       ELSE calls' = [calls EXCEPT ![c] = Responded(@, FALSE)]
    /\ UNCHANGED <<now, dbReady, sensor_metadata, users, device_responses,
                   tank_readings, lookup, answer>>

-----------------------------------------------------------------------------
(* The environment: the producers of documents, the clock, the connection. *)

\* What the producers insert: for device_responses a slave response of T0
\* (the identity of B0 and K1), one of another device, and a document of T0
\* of another response type; for tank_readings the liveness replies and
\* sensor updates of B0 and a liveness reply of K1.
ResponseKinds ==
    {[thingid |-> "T0", response_type |-> "slave_response"],
     [thingid |-> "T1", response_type |-> "slave_response"],
     [thingid |-> "T0", response_type |-> "ack"]}

ReadingKinds ==
    {[deviceid |-> "B0", message_type |-> "alive_reply", sensor_no |-> Null],
     [deviceid |-> "K1", message_type |-> "alive_reply", sensor_no |-> Null],
     [deviceid |-> "B0", message_type |-> "update", sensor_no |-> "1"],
     [deviceid |-> "B0", message_type |-> "update", sensor_no |-> "2"]}

Stored == Len(device_responses) + Len(tank_readings)

\* The callers whose published slave request the device with identity
\* thingid may be answering.
Askers(thingid) ==
    {c \in Callers : /\ calls[c].op = "slaveRequest" /\ calls[c].pubOk
                     /\ calls[c].pc = "polling" /\ calls[c].thingid = thingid}

\* The response Lambda inserts a document into device_responses, stamped
\* with the current time.  cause names the caller whose command the device
\* is answering ("" for a document that answers none of the calls in flight).
InsertResponse(kind, cause) ==
    /\ Stored < MaxDocs
    /\ cause # "" => /\ cause \in Askers(kind.thingid)
                     /\ kind.response_type = "slave_response"
    /\ device_responses' = Append(device_responses,
          [thingid |-> kind.thingid, response_type |-> kind.response_type,
           inserted_at |-> now, cause |-> cause])
    /\ UNCHANGED <<now, dbReady, sensor_metadata, users, tank_readings, calls,
                   lookup, answer>>

\* A reading is inserted into tank_readings, stamped with the current time.
InsertReading(kind) ==
    /\ Stored < MaxDocs
    /\ tank_readings' = Append(tank_readings,
          [deviceid |-> kind.deviceid, message_type |-> kind.message_type,
           sensor_no |-> kind.sensor_no, timestamp |-> now])
    /\ UNCHANGED <<now, dbReady, sensor_metadata, users, device_responses, calls,
                   lookup, answer>>

\* The clock advances by ms.  Time passes only when no handler has a step
\* to take at the current instant (every invocation in flight is waiting for
\* its timer), and the clock stops once no request is in flight and none
\* can arrive any more.
Tick(ms) ==
    /\ now + ms <= MaxTime
    /\ \A c \in Callers :
          \/ calls[c].pc = "idle"
          \/ calls[c].pc = "polling" /\ calls[c].wakeAt > now
    /\ now < StartBy \/ \E c \in Callers : calls[c].pc # "idle"
    /\ now' = now + ms
    /\ UNCHANGED <<dbReady, sensor_metadata, users, device_responses,
                   tank_readings, calls, lookup, answer>>

\* The response has been sent: the invocation is over.
Retire(c) ==
    /\ calls[c].pc = "done"
    /\ calls' = [calls EXCEPT ![c] = NoCall]
    /\ UNCHANGED <<now, dbReady, sensor_metadata, users, device_responses,
                   tank_readings, lookup, answer>>

\* mongoose connects: mongoose.connection.db becomes defined.
Connect ==
    /\ ~dbReady
    /\ dbReady' = TRUE
    /\ UNCHANGED <<now, sensor_metadata, users, device_responses,
                   tank_readings, calls, lookup, answer>>

-----------------------------------------------------------------------------
(* Spec: the command handlers (control, setting, slaveRequest), one request *)
(* at a time.  The handlers share no state but the collections, which they *)
(* only read, so what holds of one invocation holds of it among others.    *)
(* The clock runs at half the poll interval of the slave-response poll.    *)

NoLookup == [deviceid |-> Null, sensorThrew |-> FALSE, usersThrew |-> FALSE]

Init ==
    /\ now = 0
    /\ dbReady = FALSE
    /\ sensor_metadata = DirSensors
    /\ users = DirUsers
    /\ device_responses = <<>>
    /\ tank_readings = <<>>
    /\ calls = [c \in Callers |-> NoCall]
    /\ lookup = NoLookup
    /\ answer = "pending"

Next ==
    \/ \E c \in Solo, d \in DeviceIds : controlStart(c, d)
    \/ \E c \in Solo, ok \in BOOLEAN : controlPublished(c, ok)
    \/ \E c \in Solo, d \in DeviceIds : settingStart(c, d)
    \/ \E c \in Solo, ok \in BOOLEAN : settingPublished(c, ok)
    \/ \E c \in Solo, d \in DeviceIds, n \in SensorNos : slaveRequestStart(c, d, n)
    \/ \E c \in Solo, ok \in BOOLEAN : slaveRequestPublished(c, ok)
    \/ \E c \in Solo : waitForSlaveResponseFromMongoDB(c)
    \/ \E k \in ResponseKinds, cause \in Solo \cup {""} : InsertResponse(k, cause)
    \/ \E c \in Solo : Retire(c)
    \/ Tick(interval \div 2)
    \/ Connect

Spec == Init /\ [][Next]_vars

-----------------------------------------------------------------------------
(* SpecLive: the liveness handlers (isBaseResponded, isTankResponded), one  *)
(* request at a time.                                                      *)

NextLive ==
    \/ \E c \in Solo, d \in {Null, "B0", "K1"} : isBaseRespondedStart(c, d)
    \/ \E c \in Solo : checkBaseRespondedInMongo(c)
    \/ \E c \in Solo, d \in {Null, "B0"}, n \in SensorNos :
          isTankRespondedStart(c, d, n)
    \/ \E c \in Solo : checkTankRespondedInMongo(c)
    \/ \E k \in ReadingKinds : InsertReading(k)
    \/ \E c \in Solo : Retire(c)
    \/ Tick(interval \div 2)
    \/ Connect

SpecLive == Init /\ [][NextLive]_vars

-----------------------------------------------------------------------------
(* SpecPair: two slave requests in flight together, for devices of the     *)
(* same target identity, and the device's answers to them.                 *)

InitPair ==
    /\ now = 0
    /\ dbReady = TRUE
    /\ sensor_metadata = DirSensors
    /\ users = DirUsers
    /\ device_responses = <<>>
    /\ tank_readings = <<>>
    /\ calls = [c \in Callers |-> NoCall]
    /\ lookup = NoLookup
    /\ answer = "pending"

NextPair ==
    \/ \E c \in Callers, d \in {"B0", "K1"} : slaveRequestStart(c, d, "1")
    \/ \E c \in Callers, ok \in BOOLEAN : slaveRequestPublished(c, ok)
    \/ \E c \in Callers : waitForSlaveResponseFromMongoDB(c)
    \/ \E c \in Callers :
          InsertResponse([thingid |-> "T0", response_type |-> "slave_response"], c)
    \/ \E c \in Callers : Retire(c)
    \/ Tick(interval \div 2)

SpecPair == InitPair /\ [][NextPair]_vars

-----------------------------------------------------------------------------
(* SpecNewest: one slave request for K1 and a store that receives several  *)
(* replies.  A reply is stamped by its producer, at the time of the insert *)
(* or one poll interval before it, so that the order of the stamps need    *)
(* not be the order of the inserts.  The clock runs at the poll interval.  *)

ReplyKinds ==
    {[thingid |-> "T0", response_type |-> "slave_response"],
     [thingid |-> "T1", response_type |-> "slave_response"]}

InsertReply(kind, lag) ==
    /\ Len(device_responses) < MaxReplies
    /\ now - lag >= 0
    /\ device_responses' = Append(device_responses,
          [thingid |-> kind.thingid, response_type |-> kind.response_type,
           inserted_at |-> now - lag, cause |-> ""])
    /\ UNCHANGED <<now, dbReady, sensor_metadata, users, tank_readings, calls,
                   lookup, answer>>

NextNewest ==
    \/ \E c \in Solo : slaveRequestStart(c, "K1", "1")
    \/ \E c \in Solo, ok \in BOOLEAN : slaveRequestPublished(c, ok)
    \/ \E c \in Solo : waitForSlaveResponseFromMongoDB(c)
    \/ \E k \in ReplyKinds, lag \in {0, interval} : InsertReply(k, lag)
    \/ \E c \in Solo : Retire(c)
    \/ Tick(interval)

SpecNewest == InitPair /\ [][NextNewest]_vars

-----------------------------------------------------------------------------
(* The values of request bodies and reply payloads: undefined, NaN,        *)
(* integers, and text as a sequence of characters.                         *)

Undef  == [t |-> "undefined", n |-> 0, s |-> <<>>]
NaN    == [t |-> "NaN", n |-> 0, s |-> <<>>]
Num(n) == [t |-> "number", n |-> n, s |-> <<>>]
Str(s) == [t |-> "string", n |-> 0, s |-> s]

\* An ObjectId of the store, with its 24 hexadecimal digits abridged to s.
ObjectId(s) == [t |-> "ObjectId", n |-> 0, s |-> s]

\* JS truthiness: undefined, NaN, 0 and "" are falsy; an object is truthy.
JsTruthy(v) ==
    \/ v.t = "number" /\ v.n # 0
    \/ v.t = "string" /\ v.s # <<>>
    \/ v.t = "ObjectId"

\* JS a || b.
JsOr(a, b) == IF JsTruthy(a) THEN a ELSE b

Digits == <<"0", "1", "2", "3", "4", "5", "6", "7", "8", "9">>

IsDigit(ch) == \E i \in 1..Len(Digits) : Digits[i] = ch

DigitVal(ch) == (CHOOSE i \in 1..Len(Digits) : Digits[i] = ch) - 1

\* Leading white space is skipped.
RECURSIVE SkipSpace(_)
SkipSpace(s) ==
    IF s # <<>> /\ Head(s) = " " THEN SkipSpace(Tail(s)) ELSE s

\* The longest prefix of digits of s, read in base 10 onto acc.
RECURSIVE DigitRun(_, _)
DigitRun(s, acc) ==
    IF s # <<>> /\ IsDigit(Head(s))
    THEN DigitRun(Tail(s), [some |-> TRUE, val |-> acc.val * 10 + DigitVal(Head(s))])
    ELSE acc

\* parseInt(v), radix 10: the argument is converted to text; white space,
\* then an optional sign, then the longest run of digits is read, and
\* whatever follows is ignored; NaN when there is no digit to read.
parseInt(v) ==
    IF v.t = "number" THEN Num(v.n)
    ELSE IF v.t = "string"
    THEN LET t   == SkipSpace(v.s)
             neg == t # <<>> /\ Head(t) = "-"
             u   == IF t # <<>> /\ Head(t) \in {"-", "+"} THEN Tail(t) ELSE t
             r   == DigitRun(u, [some |-> FALSE, val |-> 0])
         IN  IF r.some THEN Num(IF neg THEN 0 - r.val ELSE r.val) ELSE NaN
    ELSE NaN

-----------------------------------------------------------------------------
(* SpecData: the data slaveRequest builds from a reply document and the    *)
(* fields of its request, over a family of replies and requests.           *)

\* response.response_data?.f: undefined when the document has no payload.
PayloadField(response, f) ==
    IF response.has_data THEN response.response_data[f] ELSE Undef

\* The object literal of data: { status, deviceid, thingid, channel,
\* address_l, address_h, sensor_no, slaveid, timestamp }.
SlaveData(response, req) ==
    [status    |-> JsOr(PayloadField(response, "status"),
                        Str(<<"s", "u", "c", "c", "e", "s", "s">>)),
     deviceid  |-> response.deviceid,
     thingid   |-> response.thingid,
     channel   |-> IF JsTruthy(PayloadField(response, "channel"))
                   THEN parseInt(response.response_data.channel)
                   ELSE parseInt(req.channel),
     address_l |-> JsOr(PayloadField(response, "address_l"), req.address_l),
     address_h |-> JsOr(PayloadField(response, "address_h"), req.address_h),
     sensor_no |-> JsOr(PayloadField(response, "sensor_no"), req.sensor_no),
     slaveid   |-> PayloadField(response, "slaveid"),
     timestamp |-> response.inserted_at]

\* The nested payloads of the replies.
PayloadRecords ==
    [status    : {Undef, Str(<<"o", "k">>)},
     channel   : {Undef, Num(0), Num(2), Str(<<"0">>), Str(<<"2">>)},
     address_l : {Undef, Str(<<"9">>)},
     address_h : {Undef, Str(<<"8">>)},
     sensor_no : {Undef, Str(<<"1">>)},
     slaveid   : {Undef, Str(<<"7">>)}]

NoPayload ==
    [status |-> Undef, channel |-> Undef, address_l |-> Undef,
     address_h |-> Undef, sensor_no |-> Undef, slaveid |-> Undef]

\* The reply documents: with a payload, and without one.
ReplyDocs ==
    {[deviceid |-> "K1", thingid |-> "T0", inserted_at |-> 0,
      has_data |-> TRUE, response_data |-> d] : d \in PayloadRecords}
    \cup {[deviceid |-> "K1", thingid |-> "T0", inserted_at |-> 0,
           has_data |-> FALSE, response_data |-> NoPayload]}

\* The fields of req.body that the data reads.
RequestBodies ==
    [channel   : {Undef, Num(1), Str(<<"1">>)},
     address_l : {Undef, Str(<<"4">>)},
     address_h : {Str(<<"5">>)},
     sensor_no : {Str(<<"1">>), Str(<<"3">>)},
     slaveid   : {Undef, Str(<<"6">>)}]

NoData == [done |-> FALSE, data |-> NoPayload]

InitData ==
    /\ now = 0
    /\ dbReady = TRUE
    /\ sensor_metadata = DirSensors
    /\ users = DirUsers
    /\ device_responses = <<>>
    /\ tank_readings = <<>>
    /\ calls = [c \in Callers |-> NoCall]
    /\ lookup \in [response : ReplyDocs, req : RequestBodies]
    /\ answer = NoData

\* if (response) { return res.status(200).json({ ..., data: { ... } }) }
MapReply ==
    /\ ~answer.done
    /\ answer' = [done |-> TRUE, data |-> SlaveData(lookup.response, lookup.req)]
    /\ UNCHANGED <<now, dbReady, sensor_metadata, users, device_responses,
                   tank_readings, calls, lookup>>

SpecData == InitData /\ [][MapReply]_vars

-----------------------------------------------------------------------------
(* SpecSanitize: sanitizeMongoDoc applied to a document, and again to its  *)
(* result, over a family of documents.                                     *)

\* The decimal digits of the natural number n.
RECURSIVE NatText(_)
NatText(n) ==
    IF n < 10 THEN <<Digits[n + 1]>>
    ELSE NatText(n \div 10) \o <<Digits[(n % 10) + 1]>>

\* Mutant: the identifier is printed between quotes.
toStringQuoted(v) ==
    IF v.t = "ObjectId" THEN Str(<<"'">> \o v.s \o <<"'">>)
    ELSE IF v.t = "number"
         THEN Str(<<"'">> \o (IF v.n < 0 THEN <<"-">> \o NatText(0 - v.n)
                                        ELSE NatText(v.n)) \o <<"'">>)
    ELSE Str(<<"'">> \o v.s \o <<"'">>)

\* v.toString(), for the values an _id is converted from: an ObjectId
\* prints its hexadecimal digits, a number its decimal digits, a string
\* itself.
toString(v) ==
    IF v.t = "ObjectId" THEN Str(v.s)
    ELSE IF v.t = "number"
         THEN Str(IF v.n < 0 THEN <<"-">> \o NatText(0 - v.n) ELSE NatText(v.n))
    ELSE v

\* sanitizeMongoDoc(doc); isNull stands for a null or undefined doc.
sanitizeMongoDoc(doc) ==
    IF doc.isNull THEN doc
    ELSE IF JsTruthy(doc._id) THEN [doc EXCEPT !._id = toString(@)]
    ELSE doc

\* The identifiers of the documents: absent, ObjectIds, numbers, strings.
IdValues ==
    {Undef, ObjectId(<<"5", "f", "a">>), ObjectId(<<"0", "0", "7">>),
     Num(0), Num(7), Num(0 - 120), Str(<<>>), Str(<<"a">>), Str(<<"5", "f", "a">>)}

\* The documents: null, or an identifier, two plain fields, and a nested
\* document that may carry an identifier of its own.
MongoDocs ==
    [isNull : {FALSE}, _id : IdValues, name : {Undef, Str(<<"x">>)},
     reading : {Num(0), Num(5)},
     sub : {Undef, ObjectId(<<"b", "e", "e">>), Str(<<"b", "e", "e">>)}]
    \cup {[isNull |-> TRUE, _id |-> Undef, name |-> Undef, reading |-> Num(0),
           sub |-> Undef]}

InitSanitize ==
    /\ now = 0
    /\ dbReady = TRUE
    /\ sensor_metadata = DirSensors
    /\ users = DirUsers
    /\ device_responses = <<>>
    /\ tank_readings = <<>>
    /\ calls = [c \in Callers |-> NoCall]
    /\ lookup \in [doc : MongoDocs]
    /\ answer = [passes |-> 0, once |-> lookup.doc, twice |-> lookup.doc]

\* sanitizeMongoDoc(doc)
SanitizeOnce ==
    /\ answer.passes = 0
    /\ answer' = [answer EXCEPT !.passes = 1,
                                !.once = sanitizeMongoDoc(lookup.doc)]
    /\ UNCHANGED <<now, dbReady, sensor_metadata, users, device_responses,
                   tank_readings, calls, lookup>>

\* sanitizeMongoDoc(sanitizeMongoDoc(doc))
SanitizeTwice ==
    /\ answer.passes = 1
    /\ answer' = [answer EXCEPT !.passes = 2,
                                !.twice = sanitizeMongoDoc(answer.once)]
    /\ UNCHANGED <<now, dbReady, sensor_metadata, users, device_responses,
                   tank_readings, calls, lookup>>

SpecSanitize == InitSanitize /\ [][SanitizeOnce \/ SanitizeTwice]_vars

-----------------------------------------------------------------------------
(* SpecPayload: the payload slaveRequest publishes, over a family of       *)
(* request bodies.                                                         *)

\* const payload = { deviceid, sensor_no, mode: parseInt(mode) || 3,
\* channel: parseInt(channel), address_l, address_h, range: parseInt(range),
\* capacity: parseInt(capacity) }; if (slaveid) payload.slaveid = slaveid.
\* has_slaveid says whether the payload has the key slaveid.
Payload(body) ==
    [deviceid    |-> body.deviceid,
     sensor_no   |-> body.sensor_no,
     mode        |-> JsOr(parseInt(body.mode), Num(3)),
     channel     |-> parseInt(body.channel),
     address_l   |-> body.address_l,
     address_h   |-> body.address_h,
     range       |-> parseInt(body.range),
     capacity    |-> parseInt(body.capacity),
     has_slaveid |-> JsTruthy(body.slaveid),
     slaveid     |-> IF JsTruthy(body.slaveid) THEN body.slaveid ELSE Undef]

\* The characters of the texts a request may carry as its mode.
ModeChars == {"0", "1", "2", "a", "-", " "}

MaxModeLen == 3

\* The texts of at most MaxModeLen characters.
ModeTexts == UNION {[1..k -> ModeChars] : k \in 0..MaxModeLen}

\* The modes of the requests: absent, numbers, texts.
ModeValues ==
    {Undef, Num(0), Num(1), Num(3), Num(0 - 2)} \cup {Str(t) : t \in ModeTexts}

SlaveBodies ==
    [deviceid : {Str(<<"K", "1">>)}, sensor_no : {Str(<<"1">>)},
     mode : ModeValues, channel : {Undef, Str(<<"1">>)},
     address_l : {Str(<<"4">>)}, address_h : {Str(<<"5">>)},
     range : {Str(<<"9">>)}, capacity : {Undef},
     slaveid : {Undef, Str(<<"6">>)}]

InitPayload ==
    /\ now = 0
    /\ dbReady = TRUE
    /\ sensor_metadata = DirSensors
    /\ users = DirUsers
    /\ device_responses = <<>>
    /\ tank_readings = <<>>
    /\ calls = [c \in Callers |-> NoCall]
    /\ lookup \in [body : SlaveBodies]
    /\ answer = [built |-> FALSE, payload |-> Payload(
                    [lookup.body EXCEPT !.mode = Undef, !.channel = Undef,
                                        !.slaveid = Undef])]

\* The handler builds the payload of its publish.
BuildPayload ==
    /\ ~answer.built
    /\ answer' = [built |-> TRUE, payload |-> Payload(lookup.body)]
    /\ UNCHANGED <<now, dbReady, sensor_metadata, users, device_responses,
                   tank_readings, calls, lookup>>

SpecPayload == InitPayload /\ [][BuildPayload]_vars

-----------------------------------------------------------------------------
(* SpecPoll: the three polls called directly, with a budget of the         *)
(* caller's choosing, one call at a time.                                  *)

\* The budgets (timeoutMs) of the direct calls: negative, zero, below one
\* interval, not a multiple of any interval, and those the handlers pass.
PollBudgets == {0 - interval, 0, interval \div 2, interval + interval \div 2,
                baseTimeout, slaveTimeout}

\* The poll function each kind of call runs.
PollOps == {"slaveRequest", "isBaseResponded", "isTankResponded"}

\* waitForSlaveResponseFromMongoDB("T0", timeoutMs),
\* checkBaseRespondedInMongo("B0", timeoutMs) or
\* checkTankRespondedInMongo("B0", "1", timeoutMs) is entered: it takes the
\* database handle and the start time; its loop is the next action.
pollCalled(c, op, timeoutMs) ==
    /\ Accepting(c)
    /\ dbReady
    /\ calls' = [calls EXCEPT ![c] =
          [NoCall EXCEPT !.op = op, !.pc = "polling", !.thingid = "T0",
                         !.deviceid = "B0", !.sensor_no = "1",
                         !.budget = timeoutMs, !.began = now,
                         !.start = now, !.wakeAt = now]]
    /\ UNCHANGED <<now, dbReady, sensor_metadata, users, device_responses,
                   tank_readings, lookup, answer>>

NextPoll ==
    \/ \E c \in Solo, op \in PollOps, b \in PollBudgets : pollCalled(c, op, b)
    \/ \E c \in Solo : waitForSlaveResponseFromMongoDB(c)
    \/ \E c \in Solo : checkBaseRespondedInMongo(c)
    \/ \E c \in Solo : checkTankRespondedInMongo(c)
    \/ InsertResponse([thingid |-> "T0", response_type |-> "slave_response"], "")
    \/ \E k \in {r \in ReadingKinds : r.deviceid = "B0" /\ r.sensor_no # "2"} :
          InsertReading(k)
    \/ \E c \in Solo : Retire(c)
    \/ Tick(interval \div 2)

SpecPoll == InitPair /\ [][NextPoll]_vars

-----------------------------------------------------------------------------
(* SpecResolve: getThingIdByDeviceId called directly, over a family of     *)
(* directories around the device D1 and its possible parent D0.            *)

DeviceTypes == {"base", "tank", "valve"}
ParentRefs  == {Null, "D0", "D9"}

\* The records of D1: every type, every parent reference, every
\* combination of the four identity aliases.
TargetRecords ==
    {Device("D1", t, p, tn, a1, a2, a3) :
        t \in DeviceTypes, p \in ParentRefs, tn \in {Null, "T1"},
        a1 \in {Null, "T1a"}, a2 \in {Null, "T1b"}, a3 \in {Null, "T1c"}}

\* The records of D0, the device the parent reference may name.
SiblingRecords ==
    {Device("D0", t, Null, tn, a1, Null, Null) :
        t \in {"base", "tank"}, tn \in {Null, "T0"}, a1 \in {Null, "T0a"}}

\* The Space of D1: D1 alone, or with D0 before or after it.
HomeSpaces ==
    {[devices |-> <<x>>] : x \in TargetRecords}
    \cup {[devices |-> <<x, y>>] : x \in TargetRecords, y \in SiblingRecords}
    \cup {[devices |-> <<y, x>>] : x \in TargetRecords, y \in SiblingRecords}

\* Another Space of the same account: one holding a base D0, one holding a
\* record of the same device id D1.
OtherSpaces ==
    {[devices |-> <<Device("D0", "base", Null, "TZ", Null, Null, Null)>>],
     [devices |-> <<Device("D1", "base", Null, "TY", Null, Null, Null)>>]}

UserDocs ==
    {[spaces |-> <<h>>] : h \in HomeSpaces}
    \cup {[spaces |-> <<h, o>>] : h \in HomeSpaces, o \in OtherSpaces}
    \cup {[spaces |-> <<o, h>>] : h \in HomeSpaces, o \in OtherSpaces}

SensorColls ==
    {<<>>,
     <<[deviceid |-> "D1", thingid |-> Null, thingId |-> Null, thing_id |-> Null]>>,
     <<[deviceid |-> "D1", thingid |-> Null, thingId |-> Null, thing_id |-> "TM"]>>}

InitResolve ==
    /\ now = 0
    /\ dbReady = TRUE
    /\ sensor_metadata \in SensorColls
    /\ users \in {<<u>> : u \in UserDocs}
    /\ device_responses = <<>>
    /\ tank_readings = <<>>
    /\ calls = [c \in Callers |-> NoCall]
    /\ lookup \in [deviceid : {"D1"}, sensorThrew : BOOLEAN, usersThrew : BOOLEAN]
    /\ answer = "pending"

\* const thingid = await getThingIdByDeviceId(deviceid)
Resolve ==
    /\ answer = "pending"
    /\ answer' = getThingIdByDeviceId(lookup.deviceid, sensor_metadata, users,
                                      lookup.sensorThrew, lookup.usersThrew)
    /\ UNCHANGED <<now, dbReady, sensor_metadata, users, device_responses,
                   tank_readings, calls, lookup>>

SpecResolve == InitResolve /\ [][Resolve]_vars

-----------------------------------------------------------------------------
(* Properties.                                                             *)

Done(c)    == calls[c].pc = "done"
IsSlave(c) == calls[c].op = "slaveRequest"

\* The documents of device_responses a slave request of caller c matches on
\* identity and response type, whatever their age.
SlaveReplies(c) ==
    {i \in 1..Len(device_responses) :
        /\ device_responses[i].thingid = calls[c].thingid
        /\ device_responses[i].response_type = "slave_response"}

\* C1 (as claimed): the document a slaveRequest returns as its reply was
\* inserted after that call published its command; a document already in
\* the store before the publish is never matched.  Read in the claim's
\* favour: a document stamped with the very millisecond of the publish counts
\* as inserted after it.
C1_ReplyInsertedAfterPublish ==
    \A c \in Callers :
        (IsSlave(c) /\ Done(c) /\ calls[c].data = "reply")
            => device_responses[calls[c].reply].inserted_at >= calls[c].pubAt

\* The budget, the recency window and the polled collection of caller c's poll.
Budget(c) ==
    IF calls[c].op = "slaveRequest" THEN slaveTimeout
    ELSE IF calls[c].op = "isBaseResponded" THEN baseTimeout ELSE tankTimeout

Window(c) ==
    IF calls[c].op = "slaveRequest" THEN slaveWindow
    ELSE IF calls[c].op = "isBaseResponded" THEN baseWindow ELSE tankWindow

\* The insertion times of the documents that qualify for caller c's poll:
\* they match its key and type, they are in the store before the budget has
\* elapsed since the loop started, and they are inside the recency window at
\* some moment of the poll at which they are in the store.
QualifyingTimes(c) ==
    LET all ==
          IF calls[c].op = "slaveRequest"
          THEN {device_responses[i].inserted_at : i \in SlaveReplies(c)}
          ELSE IF calls[c].op = "isBaseResponded"
          THEN {tank_readings[i].timestamp : i \in
                  {j \in 1..Len(tank_readings) :
                      /\ tank_readings[j].deviceid = calls[c].deviceid
                      /\ tank_readings[j].message_type = "alive_reply"}}
          ELSE {tank_readings[i].timestamp : i \in
                  {j \in 1..Len(tank_readings) :
                      /\ tank_readings[j].deviceid = calls[c].deviceid
                      /\ tank_readings[j].sensor_no = calls[c].sensor_no
                      /\ tank_readings[j].message_type = "update"}}
    IN  {t \in all : /\ t < calls[c].start + Budget(c)
                     /\ t >= calls[c].start - Window(c)}

\* The poll of caller c has returned: a document (reply # 0) or Timeout.
Polled(c) ==
    /\ Done(c) /\ calls[c].queries > 0
    /\ calls[c].op \in {"slaveRequest", "isBaseResponded", "isTankResponded"}

\* C2 (as claimed): a poll returns Timeout if and only if no qualifying
\* document appears in the store before its budget has elapsed, a document
\* inserted during the final wait between polls included.  Read in the
\* claim's favour: only polls none of whose queries threw are considered.
C2_TimeoutIffNoQualifyingDocument ==
    \A c \in Callers :
        (Polled(c) /\ calls[c].failSeq = -1)
            => (calls[c].reply = 0 <=> QualifyingTimes(c) = {})

\* The records of device id d in the user document found for it, each with
\* the devices of its Space.
RecordsOf(d) ==
    LET r == FindOneUser(users, d)
    IN  IF ~r.found THEN {}
        ELSE UNION {
               {<<r.doc.spaces[s].devices, r.doc.spaces[s].devices[i]>> :
                   i \in {j \in 1..Len(r.doc.spaces[s].devices) :
                             r.doc.spaces[s].devices[j].device_id = d}} :
               s \in 1..Len(r.doc.spaces)}

\* The fast path yields no identity for the looked-up device.
NoFastPath ==
    ~SensorStep(lookup.deviceid, sensor_metadata, lookup.sensorThrew).ret

\* Every hierarchy record of the looked-up device is a tank whose parent
\* reference names no base of its own Space.
DanglingTank ==
    /\ RecordsOf(lookup.deviceid) # {}
    /\ \A r \in RecordsOf(lookup.deviceid) :
          /\ r[2].device_type = "tank"
          /\ Truthy(r[2].parent_device_id)
          /\ ~FindBase(r[1], r[2].parent_device_id).found

\* C3 (as claimed): with no fast-path mapping, a tank whose parent reference
\* names a sibling that does not exist in its Space or is not a base
\* resolves to null, whatever other fields the tank record carries.
C3_DanglingTankResolvesToNull ==
    (answer # "pending" /\ NoFastPath /\ DanglingTank) => answer = Null


\* Identity resolution ran for caller c and yielded NotFound.
NotFound(c) == calls[c].lookups = 1 /\ ~Truthy(calls[c].thingid)

\* The outcome of caller c is the error setting raises when the publish
\* fails: an Error whose message is "MQTT Publish Failed: " and the cause.
IsPublishFailure(c) ==
    /\ calls[c].thrown
    /\ Len(calls[c].error) > 0
    /\ calls[c].error[1] = "MQTT Publish Failed"

\* C4 (as claimed): in control, setting and slaveRequest a NotFound
\* resolution ends the call without a publish, with 404 for control and
\* slaveRequest and, for setting, with an outcome that is not the wrapped
\* publish-failure error.
C4_NotFoundIsDistinct ==
    \A c \in Callers :
        (Done(c) /\ NotFound(c)
              /\ calls[c].op \in {"control", "setting", "slaveRequest"})
            => /\ calls[c].pubs = 0
               /\ calls[c].op # "setting" => calls[c].status = 404
               /\ calls[c].op = "setting" => ~IsPublishFailure(c)

\* C5: a slaveRequest whose publish fails ends with 500 and issues no poll
\* query; a poll is entered, and a query issued, only after the publish of
\* that call has succeeded.
C5_NoPollAfterFailedPublish ==
    \A c \in Callers :
        IsSlave(c) =>
            /\ (calls[c].pc = "polling" \/ calls[c].queries > 0) => calls[c].pubOk
            /\ (Done(c) /\ calls[c].pubs = 1 /\ ~calls[c].pubOk)
                  => calls[c].status = 500 /\ calls[c].queries = 0

\* C5's case: a slaveRequest has published, the publish failed, and the call
\* is over.
C5_Witness ==
    \E c \in Callers :
        /\ IsSlave(c) /\ Done(c)
        /\ calls[c].pubs = 1 /\ ~calls[c].pubOk /\ calls[c].status = 500

\* Caller c's request lacks a field its handler requires.
Invalid(c) ==
    \/ calls[c].op = "control" /\ ~Truthy(calls[c].deviceid)
    \/ /\ calls[c].op = "slaveRequest"
       /\ ~Truthy(calls[c].deviceid) \/ ~Truthy(calls[c].sensor_no)

\* C6: a control call with no device id and a slaveRequest call with no
\* device id or no sensor index end with 400 in the instant they arrive,
\* with no identity-resolution query, no publish and no poll query.
C6_InvalidRequestStopsAt400 ==
    \A c \in Callers :
        Invalid(c) =>
            /\ Done(c)
            /\ calls[c].status = 400 /\ ~calls[c].success
            /\ calls[c].doneAt = calls[c].began
            /\ calls[c].lookups = 0 /\ calls[c].pubs = 0 /\ calls[c].queries = 0

\* C6's case: a slaveRequest with a device id and no sensor index, and a
\* control call with no device id, have been answered.
C6_Witness ==
    \E c \in Callers :
        /\ IsSlave(c) /\ Done(c) /\ calls[c].status = 400
        /\ Truthy(calls[c].deviceid) /\ ~Truthy(calls[c].sensor_no)


\* The documents that answer caller c's published slave request in time:
\* they match it on identity and type, they were inserted after its publish
\* and within 3 seconds of it.
PromptReplies(c) ==
    {i \in SlaveReplies(c) :
        /\ i > calls[c].pubSeq
        /\ device_responses[i].inserted_at <= calls[c].pubAt + 3000}

\* Caller c's slave request is answered no later than one poll interval
\* after the insertion of document i.
AnsweredWithinInterval(c, i) ==
    /\ calls[c].pc = "polling"
          => now <= device_responses[i].inserted_at + interval
    /\ Done(c)
          => /\ calls[c].status = 200 /\ calls[c].success
             /\ calls[c].data = "reply" /\ calls[c].reply # 0
             /\ calls[c].doneAt <= device_responses[i].inserted_at + interval

C8_NullAfterBudget ==
    \A c \in Callers :
        (IsSlave(c) /\ calls[c].pubOk /\ SlaveReplies(c) = {})
            => /\ calls[c].pc = "polling"
                    => now - calls[c].start <= slaveTimeout + interval
               /\ Done(c)
                    => /\ calls[c].status = 200 /\ calls[c].success
                       /\ calls[c].data = "null"
                       /\ calls[c].doneAt - calls[c].start >= slaveTimeout
                       /\ calls[c].doneAt - calls[c].start <= slaveTimeout + interval

\* C8's case: a published slave request has polled a store that never held a
\* matching document, some of its queries threw, and it has returned.
C8_Witness ==
    \E c \in Callers :
        /\ IsSlave(c) /\ Done(c) /\ calls[c].pubOk
        /\ SlaveReplies(c) = {} /\ Len(device_responses) > 0
        /\ calls[c].failSeq >= 0
        /\ calls[c].data = "null"

IsLive(c) == calls[c].op \in {"isBaseResponded", "isTankResponded"}

\* Caller c's liveness request lacks a parameter its handler requires.
Missing(c) ==
    \/ ~Truthy(calls[c].deviceid)
    \/ calls[c].op = "isTankResponded" /\ ~Truthy(calls[c].sensor_no)

\* Document i of tank_readings is what caller c's check looks for, and is
\* inside the recency window at the time the call returns.
LiveMatch(c, i) ==
    /\ i \in 1..Len(tank_readings)
    /\ tank_readings[i].deviceid = calls[c].deviceid
    /\ tank_readings[i].timestamp >= calls[c].doneAt - Window(c)
    /\ tank_readings[i].timestamp <= calls[c].doneAt
    /\ IF calls[c].op = "isBaseResponded"
       THEN tank_readings[i].message_type = "alive_reply"
       ELSE /\ tank_readings[i].message_type = "update"
            /\ tank_readings[i].sensor_no = calls[c].sensor_no

\* The three outcomes of a liveness check: 200 exactly when a poll query
\* observed a matching document of the recency window, 404 when none was
\* observed within the budget, 500 when the check threw before any query.
ThreeOutcomes(c) ==
    /\ calls[c].status \in {200, 404, 500}
    /\ calls[c].status = 200 <=> calls[c].reply # 0
    /\ calls[c].status = 200 => calls[c].success /\ LiveMatch(c, calls[c].reply)
    /\ calls[c].status = 404
          => /\ ~calls[c].success /\ calls[c].queries > 0
             /\ calls[c].doneAt - calls[c].start >= Budget(c)
    /\ calls[c].status = 500 <=> calls[c].queries = 0
    /\ calls[c].status = 500 => ~calls[c].success

\* C9 (as claimed): isBaseResponded and isTankResponded end in exactly one
\* of three outcomes, 200, 404 or 500.
C9_AsClaimed ==
    \A c \in Callers : (IsLive(c) /\ Done(c)) => ThreeOutcomes(c)

\* C9 (amended): a call that carries its parameters ends in exactly one of
\* the three outcomes; a call without device id (or, for isTankResponded,
\* without sensor number) ends with a fourth one, 400, without any query.
C9_ThreeOutcomesWhenValid ==
    \A c \in Callers :
        (IsLive(c) /\ Done(c))
            => IF Missing(c)
               THEN calls[c].status = 400 /\ calls[c].queries = 0
               ELSE ThreeOutcomes(c)

\* C9's case: a liveness check has used up its budget without observing a
\* document, although one of another kind was in the store.
C9_Witness ==
    \E c \in Callers :
        /\ IsLive(c) /\ Done(c) /\ ~Missing(c)
        /\ calls[c].status = 404 /\ Len(tank_readings) > 0

\* C10: matching uses only target identity, response type and recency, so a
\* poll never passes over such a document because the device produced it for
\* another call: a slave request that sleeps after a query had either no
\* such document in the store at that query, or the query threw.
C10_MatchIgnoresRequester ==
    \A c \in Callers :
        (IsSlave(c) /\ calls[c].pc = "polling" /\ calls[c].queries > 0
                    /\ calls[c].wakeAt > now)
            => \A i \in SlaveReplies(c) :
                  (/\ i <= calls[c].askedSeq
                   /\ device_responses[i].inserted_at
                         >= calls[c].wakeAt - interval - slaveWindow)
                      => calls[c].failSeq = calls[c].askedSeq

\* C10's case: two slave requests in flight together for devices of the same
\* identity have both returned the one document the device produced for
\* one of them.
C10_Witness ==
    \E a \in Callers, b \in Callers :
        /\ a # b
        /\ IsSlave(a) /\ Done(a) /\ calls[a].data = "reply"
        /\ IsSlave(b) /\ Done(b) /\ calls[b].data = "reply"
        /\ calls[a].deviceid # calls[b].deviceid
        /\ calls[a].reply = calls[b].reply
        /\ device_responses[calls[a].reply].cause = b

\* The hierarchy was read: the users query of the direct call did not throw.
HierarchyRead == ~lookup.usersThrew

\* Every hierarchy record of the looked-up device is a tank whose parent
\* reference names a base of its own Space that carries a target identity.
TankOfBase ==
    /\ RecordsOf(lookup.deviceid) # {}
    /\ \A r \in RecordsOf(lookup.deviceid) :
          /\ r[2].device_type = "tank"
          /\ Truthy(r[2].parent_device_id)
          /\ FindBase(r[1], r[2].parent_device_id).found
          /\ Truthy(DeviceThing(FindBase(r[1], r[2].parent_device_id).dev))

\* The target identities of the bases the records of the looked-up device
\* name as parents, each taken in the Space of its record.
ParentIdentities ==
    {DeviceThing(FindBase(r[1], r[2].parent_device_id).dev) :
        r \in RecordsOf(lookup.deviceid)}

\* C11: with no fast-path mapping and the hierarchy read, a device whose
\* hierarchy record is a tank with a parent reference to a base of the same
\* Space that carries target identity T resolves to T: not to a value of
\* the tank record, and not to the identity of a record of the parent's id
\* in another Space.
C11_TankResolvesToParentIdentity ==
    (answer # "pending" /\ NoFastPath /\ HierarchyRead /\ TankOfBase)
        => answer \in ParentIdentities

\* C11's case: the tank carries an identity field of its own, another Space
\* of the account, searched first, holds a base with the parent's id, and the
\* lookup has returned the identity of the parent of the tank's own Space.
C11_Witness ==
    /\ answer # "pending" /\ NoFastPath /\ HierarchyRead /\ TankOfBase
    /\ \E r \in RecordsOf(lookup.deviceid) : Truthy(DeviceThing(r[2]))
    /\ Len(users[1].spaces) = 2
    /\ \E i \in 1..Len(users[1].spaces[1].devices) :
          /\ users[1].spaces[1].devices[i].device_id = "D0"
          /\ users[1].spaces[1].devices[i].thing_name = "TZ"
    /\ answer \in {"T0", "T0a"}


\* Some alias of the target identity is populated on device record d.
HasAlias(d) ==
    \/ Truthy(d.thing_name) \/ Truthy(d.thingid)
    \/ Truthy(d.thingId) \/ Truthy(d.thing_id)

\* The populated alias of record d that comes first in the order
\* thing_name, thingid, thingId, thing_id.
FirstAlias(d) ==
    IF Truthy(d.thing_name) THEN d.thing_name
    ELSE IF Truthy(d.thingid) THEN d.thingid
    ELSE IF Truthy(d.thingId) THEN d.thingId
    ELSE d.thing_id

\* Every hierarchy record of the looked-up device is a base, and one of them
\* has an alias populated.
BaseWithAlias ==
    /\ RecordsOf(lookup.deviceid) # {}
    /\ \A r \in RecordsOf(lookup.deviceid) : r[2].device_type = "base"
    /\ \E r \in RecordsOf(lookup.deviceid) : HasAlias(r[2])

\* C12: with no fast-path mapping and the hierarchy read, a base device with
\* at least one of the aliases thing_name, thingid, thingId, thing_id
\* populated resolves to the populated alias that comes first in that order.
C12_BaseResolvesToFirstAlias ==
    (answer # "pending" /\ NoFastPath /\ HierarchyRead /\ BaseWithAlias)
        => answer \in {FirstAlias(r[2]) :
                          r \in {x \in RecordsOf(lookup.deviceid) : HasAlias(x[2])}}

\* C12's case: the one record of the base has thing_name empty and both
\* thingid and thing_id populated, and the lookup has returned thingid.
C12_Witness ==
    /\ answer # "pending" /\ NoFastPath /\ HierarchyRead /\ BaseWithAlias
    /\ \A r \in RecordsOf(lookup.deviceid) :
          /\ ~Truthy(r[2].thing_name)
          /\ r[2].thingid = "T1a" /\ r[2].thing_id = "T1c"
    /\ answer = "T1a"


\* The documents the query of caller c's last poll turn matched: those in
\* the store at that query with its thing id, the slave response type, and
\* a stamp inside the recency window of that query.
MatchedAtLastQuery(c) ==
    {j \in 1..calls[c].askedSeq :
        SlaveFilter(device_responses[j], calls[c].thingid,
                    calls[c].doneAt - slaveWindow)}

\* C13: when several documents of the same key and response type lie inside
\* the recency window at a poll query, the poll returns one with the
\* greatest insertion timestamp, never an older one.
C13_NewestMatchWins ==
    \A c \in Callers :
        (IsSlave(c) /\ Done(c) /\ calls[c].data = "reply")
            => /\ calls[c].reply \in MatchedAtLastQuery(c)
               /\ \A j \in MatchedAtLastQuery(c) :
                     device_responses[j].inserted_at
                        <= device_responses[calls[c].reply].inserted_at

\* C13's case: two matching documents were in the store at the query, the
\* one stamped earlier was inserted later, and the poll returned the other.
C13_Witness ==
    \E c \in Callers :
        /\ IsSlave(c) /\ Done(c) /\ calls[c].data = "reply"
        /\ \E j \in MatchedAtLastQuery(c) :
              /\ j > calls[c].reply
              /\ device_responses[j].inserted_at
                    < device_responses[calls[c].reply].inserted_at


\* The reply of the direct call carries field f in its nested payload.
Carries(f) == PayloadField(lookup.response, f) # Undef

\* What the data must hold for field f: the payload's value when the reply
\* carries the field, the request's value otherwise; channel as a number.
Reconciled(f) ==
    LET v == IF Carries(f) THEN lookup.response.response_data[f]
             ELSE lookup.req[f]
    IN  IF f = "channel" THEN parseInt(v) ELSE v

\* C14 (as claimed): in the data returned for a found reply, each of
\* status, channel, address_l, address_h, sensor_no and slaveid is the value
\* of the reply's nested payload when the reply carries the field, and the
\* value supplied in the request otherwise (channel as a number), also for
\* slaveid and for a payload channel of 0.  Read in the claim's favour:
\* status, which no request supplies, is only checked when the reply
\* carries it.
C14_DataPrefersPayload ==
    answer.done =>
        /\ Carries("status") => answer.data.status = lookup.response.response_data.status
        /\ \A f \in {"channel", "address_l", "address_h", "sensor_no", "slaveid"} :
              answer.data[f] = Reconciled(f)


\* C15: normalization is idempotent, sanitizeMongoDoc(sanitizeMongoDoc(d))
\* = sanitizeMongoDoc(d) for every document d, and every field other than
\* the store-internal identifier _id is passed through unchanged.
C15_SanitizeIdempotent ==
    /\ answer.passes >= 1
          => \A f \in {"isNull", "name", "reading", "sub"} :
                answer.once[f] = lookup.doc[f]
    /\ answer.passes = 2 => answer.twice = answer.once

\* C15's case: a document whose identifier is an ObjectId, with a nested
\* ObjectId of its own, has been normalized twice, the first pass having
\* replaced the identifier by its printed form.
C15_Witness ==
    /\ answer.passes = 2
    /\ lookup.doc._id.t = "ObjectId" /\ lookup.doc.sub.t = "ObjectId"
    /\ answer.once._id = Str(lookup.doc._id.s)
    /\ answer.once # lookup.doc


\* C16: a query failure never ends a poll early.  A poll that has issued
\* a query ends without an error, with a found document or with Timeout,
\* and it ends with Timeout only once its budget has elapsed, whatever
\* number of its queries threw.
C16_QueryFailureNeverEndsPoll ==
    \A c \in Callers :
        Polled(c)
            => /\ ~calls[c].thrown
               /\ calls[c].status \in {200, 404}
               /\ calls[c].reply = 0
                     => calls[c].doneAt - calls[c].start >= Budget(c)

\* C16's case: a matching reply was in the store, inside the recency
\* window, from before the publish on, and every query of the poll threw:
\* the call has ended after the full budget with data null.
C16_Witness ==
    \E c \in Callers :
        /\ IsSlave(c) /\ Done(c) /\ calls[c].data = "null"
        /\ calls[c].failSeq >= 0
        /\ \E i \in SlaveReplies(c) : i <= calls[c].pubSeq
        /\ calls[c].status = 200
        /\ calls[c].doneAt - calls[c].start = slaveTimeout


\* What the hierarchy search alone yields for the looked-up device: the
\* result of the lookup over an empty fast-path collection.
HierarchyResult ==
    getThingIdByDeviceId(lookup.deviceid, <<>>, users, FALSE, lookup.usersThrew)

\* C17: a store error is a failed step of getThingIdByDeviceId, not a
\* failure of the call: when the fast-path query throws, the hierarchy
\* search is still made and its result returned; when the hierarchy query
\* throws, after a fast path that threw or yielded nothing, the result is
\* null; and in no case is the call rejected.
C17_StoreErrorsAreFailedSteps ==
    answer # "pending" =>
        /\ answer # Rejected
        /\ lookup.sensorThrew => answer = HierarchyResult
        /\ (lookup.usersThrew /\ NoFastPath) => answer = Null

\* C17's case: the fast-path query threw although the collection holds a
\* mapping for the device, and the lookup has returned the identity the
\* hierarchy yields.
C17_Witness ==
    /\ answer # "pending"
    /\ lookup.sensorThrew /\ ~lookup.usersThrew
    /\ SensorStep(lookup.deviceid, sensor_metadata, FALSE).ret
    /\ Truthy(answer)
    /\ answer # SensorStep(lookup.deviceid, sensor_metadata, FALSE).val


\* Caller c's request is one of the three command calls.
IsCommand(c) == calls[c].op \in {"control", "setting", "slaveRequest"}

\* Validation passed and identity resolution succeeded for caller c.
Resolved(c) == calls[c].lookups = 1 /\ Truthy(calls[c].thingid)

\* C18: a call of control, setting or slaveRequest publishes at most once,
\* and exactly once when validation and identity resolution succeed; the
\* publish comes after a successful resolution; a control call returns
\* in the instant its publish resolves and issues no poll query.
C18_PublishAtMostOnce ==
    \A c \in Callers :
        IsCommand(c) =>
            /\ calls[c].pubs <= 1
            /\ calls[c].pubs = 1 <=> Resolved(c)
            /\ calls[c].op = "control"
                  => /\ calls[c].queries = 0
                     /\ (Done(c) /\ calls[c].pubOk)
                           => calls[c].doneAt = calls[c].pubAt

\* C18's case: a control call has been validated, has resolved its device,
\* has published once and has returned 200 while a reply of the device was
\* in the store.
C18_Witness ==
    \E c \in Callers :
        /\ calls[c].op = "control" /\ Done(c) /\ Resolved(c)
        /\ calls[c].pubs = 1 /\ calls[c].pubOk /\ calls[c].status = 200
        /\ \E i \in 1..Len(device_responses) :
              device_responses[i].thingid = calls[c].thingid


\* Text s is a decimal numeral: an optional minus sign and one or more
\* digits, and nothing else.
IsNumeral(s) ==
    LET u == IF s # <<>> /\ Head(s) = "-" THEN Tail(s) ELSE s
    IN  u # <<>> /\ \A i \in 1..Len(u) : IsDigit(u[i])

\* The number a decimal numeral denotes.
NumeralValue(s) ==
    LET u == IF Head(s) = "-" THEN Tail(s) ELSE s
        m == DigitRun(u, [some |-> FALSE, val |-> 0]).val
    IN  IF Head(s) = "-" THEN 0 - m ELSE m

\* The mode of the request is a valid number: a number, or a numeral.
ValidMode(v) == v.t = "number" \/ (v.t = "string" /\ IsNumeral(v.s))

\* The mode of the request is absent, or a text without any digit.
NoMode(v) ==
    \/ v.t = "undefined"
    \/ v.t = "string" /\ \A i \in 1..Len(v.s) : ~IsDigit(v.s[i])

\* C19 (as claimed): the mode of the published payload is the numeric
\* value of the request's mode whenever that is a valid number, mode 0
\* included, and 3 when the request's mode is absent or not a number.  Read
\* in the claim's favour: texts that mix digits with other characters are
\* left out.
C19_ModeIsNumericValueOrThree ==
    answer.built =>
        /\ ValidMode(lookup.body.mode)
              => answer.payload.mode =
                    Num(IF lookup.body.mode.t = "number" THEN lookup.body.mode.n
                        ELSE NumeralValue(lookup.body.mode.s))
        /\ NoMode(lookup.body.mode) => answer.payload.mode = Num(3)


\* The interval of the poll caller c runs.
PollInterval(c) ==
    IF calls[c].op = "slaveRequest" THEN interval
    ELSE IF calls[c].op = "isBaseResponded" THEN basePollInterval
    ELSE tankPollInterval

\* ceil(b / i), for b > 0.
CeilDiv(b, i) == (b + i - 1) \div i

\* C20: a poll with budget B and interval I issues at most ceil(B / I)
\* queries, and none when B is 0 or negative; its q-th query is issued no
\* sooner than q - 1 full intervals after the start, and the timer that
\* precedes the next query is due a full interval after the last one.
C20_QueriesBoundedByBudget ==
    \A c \in Callers :
        calls[c].op \in PollOps =>
            /\ calls[c].budget <= 0 => calls[c].queries = 0
            /\ calls[c].budget > 0
                  => calls[c].queries <= CeilDiv(calls[c].budget, PollInterval(c))
            /\ calls[c].queries > 0
                  => calls[c].askedAt
                        >= calls[c].start + (calls[c].queries - 1) * PollInterval(c)
            /\ (calls[c].pc = "polling" /\ calls[c].queries > 0)
                  => calls[c].wakeAt >= calls[c].askedAt + PollInterval(c)

\* C20's case: a slave-reply poll with a budget of one interval and a half
\* has found nothing and has returned after ceil(750 / 500) = 2 queries.
C20_Witness ==
    \E c \in Callers :
        /\ IsSlave(c) /\ Done(c)
        /\ calls[c].budget = interval + interval \div 2
        /\ calls[c].queries = 2 /\ calls[c].reply = 0


====
